---- MODULE Spec2Model ----
(***************************************************************************)
(* Model of the DNS responder of codecrafters-dns-server-rust.             *)
(*                                                                         *)
(* The wire codec of src/src/message.rs is modelled as operators over      *)
(* sequences of octets (naturals 0..255) with a 0-based cursor, exactly as *)
(* the bytes::Buf cursor of the source.  The responder of src/src/main.rs  *)
(* is modelled as a state machine of per-datagram tasks.                   *)
(***************************************************************************)
EXTENDS Integers, Sequences, FiniteSets, TLC

VARIABLES
    hdr,        \* header codec: the header value under test
    hdrBytes,   \* header codec: octets written by DnsHeader::serialize
    hdrBack,    \* header codec: result of DnsHeader::try_parse on hdrBytes
    hpc,        \* header codec: position of the round trip
    nbuf,       \* name codec: the packet buffer under the cursor
    nstart,     \* name codec: cursor position at which the name is decoded
    nres,       \* name codec: result of Name::try_parse at nstart
    nout,       \* name codec: octets written by Name::serialize
    nres2,      \* name codec: result of Name::try_parse on nout
    npc,        \* name codec: position of the round trip
    mbuf,       \* message codec: a datagram
    mres,       \* message codec: result of DnsMessage::try_parse on mbuf
    mk,         \* message codec: prefix length of the truncated datagram
    mpre,       \* message codec: result of DnsMessage::try_parse on the prefix
    mpc,        \* message codec: position of the experiment
    resolver,   \* responder: the --resolver argument, "None" or "Some"
    arrivals,   \* responder: datagrams received by the loop of main so far
    queue,      \* responder: the mpsc channel between main and the dispatcher
    tasks,      \* responder: the per-datagram tasks spawned by the dispatcher
    port2054,   \* responder: the task whose socket is bound to 0.0.0.0:2054, or 0
    mainLoop,   \* responder: the receive loop of main, "running" or "exited"
    dispatcher  \* responder: the dispatcher task, "running" or "stopped"

codecVars == <<hdr, hdrBytes, hdrBack, hpc, nbuf, nstart, nres, nout, nres2,
               npc, mbuf, mres, mk, mpre, mpc>>

serverVars == <<resolver, arrivals, queue, tasks, port2054, mainLoop, dispatcher>>

vars == <<hdr, hdrBytes, hdrBack, hpc, nbuf, nstart, nres, nout, nres2,
          npc, mbuf, mres, mk, mpre, mpc,
          resolver, arrivals, queue, tasks, port2054,
          mainLoop, dispatcher>>

----------------------------------------------------------------------------
(* Octet arithmetic                                                        *)

Min(a, b) == IF a < b THEN a ELSE b

\* bool as u8
B2N(b) == IF b THEN 1 ELSE 0

RECURSIVE BitOr(_, _)
\* a | b on naturals
BitOr(a, b) ==
    IF a = 0 THEN b
    ELSE IF b = 0 THEN a
    ELSE (IF (a % 2) + (b % 2) > 0 THEN 1 ELSE 0) + 2 * BitOr(a \div 2, b \div 2)

RECURSIVE BitAnd(_, _)
\* a & b on naturals
BitAnd(a, b) ==
    IF a = 0 \/ b = 0 THEN 0
    ELSE (IF (a % 2) + (b % 2) = 2 THEN 1 ELSE 0) + 2 * BitAnd(a \div 2, b \div 2)

\* x << n on a u8: the bits shifted past bit 7 are lost
Shl8(x, n) == (x * (2 ^ n)) % 256

\* u16::to_be_bytes
U16Bytes(v) == << (v \div 256) % 256, v % 256 >>

\* u32::to_be_bytes
U32Bytes(v) == << (v \div 16777216) % 256, (v \div 65536) % 256,
                  (v \div 256) % 256, v % 256 >>

\* the octet at 0-based index i
At(buf, i) == buf[i + 1]

\* buf[from..to] of the source: 0-based, to exclusive
Slice(buf, from, to) == SubSeq(buf, from + 1, to)

\* Buf::remaining of a cursor at pos
Remaining(buf, pos) == IF pos >= Len(buf) THEN 0 ELSE Len(buf) - pos

----------------------------------------------------------------------------
(* Results: Ok(val) leaves the cursor at pos; Err(err) carries the reason  *)

Ok(v, p) == [ok |-> TRUE, val |-> v, pos |-> p, err |-> "", reason |-> ""]

Err(e, r) == [ok |-> FALSE, val |-> <<>>, pos |-> 0, err |-> e, reason |-> r]

NotEnoughData == Err("NotEnoughData", "")

\* Buf::try_get_u8
TryGetU8(buf, pos) ==
    IF Remaining(buf, pos) < 1 THEN NotEnoughData
    ELSE Ok(At(buf, pos), pos + 1)

\* a plausible slip: octets missing at the end of the buffer read as zero
TryGetU16_zero_filled(buf, pos) ==
    IF Remaining(buf, pos) < 2 THEN Ok(0, Len(buf))
    ELSE Ok(At(buf, pos) * 256 + At(buf, pos + 1), pos + 2)

\* Buf::try_get_u16 (big endian)
TryGetU16(buf, pos) ==
    IF Remaining(buf, pos) < 2 THEN NotEnoughData
    ELSE Ok(At(buf, pos) * 256 + At(buf, pos + 1), pos + 2)

\* Buf::try_get_u32 (big endian)
TryGetU32(buf, pos) ==
    IF Remaining(buf, pos) < 4 THEN NotEnoughData
    ELSE Ok(At(buf, pos) * 16777216 + At(buf, pos + 1) * 65536
            + At(buf, pos + 2) * 256 + At(buf, pos + 3), pos + 4)

----------------------------------------------------------------------------
(* Header codec                                                            *)

Opcodes == {"StandardQuery", "InverseQuery", "ServerStatusRequest", "Invalid"}

\* `self.opcode as u8`: the enum discriminants
OpcodeAsU8(op) ==
    CASE op = "StandardQuery" -> 0
      [] op = "InverseQuery" -> 1
      [] op = "ServerStatusRequest" -> 2
      [] OTHER -> 3

\* the match on b & 0b0111_1000
OpcodeOfBits(b) ==
    CASE BitAnd(b, 120) = 0 -> "StandardQuery"
      [] BitAnd(b, 120) = 8 -> "InverseQuery"
      [] BitAnd(b, 120) = 16 -> "ServerStatusRequest"
      [] OTHER -> "Invalid"

DnsHeader(id, qr, op, aa, tc, rd, ra, z, rcode, qd, an, ns, ar) ==
    [id |-> id, qr_indicator |-> qr, opcode |-> op,
     authoritative_answer |-> aa, truncation |-> tc,
     recursion_desired |-> rd, recursion_available |-> ra,
     reserved |-> z, response_code |-> rcode,
     question_count |-> qd, answer_record_count |-> an,
     authority_record_count |-> ns, additional_record_count |-> ar]

DnsHeader_try_parse(buf, pos) ==
    IF Remaining(buf, pos) < 12 THEN NotEnoughData
    ELSE LET b2 == At(buf, pos + 2)
             b3 == At(buf, pos + 3)
         IN Ok(DnsHeader(At(buf, pos) * 256 + At(buf, pos + 1),
                         BitAnd(b2, 128) # 0,
                         OpcodeOfBits(b2),
                         BitAnd(b2, 4) # 0,
                         BitAnd(b2, 2) # 0,
                         BitAnd(b2, 1) # 0,
                         BitAnd(b3, 128) # 0,
                         BitAnd(b3, 112) \div 16,
                         BitAnd(b3, 15),
                         At(buf, pos + 4) * 256 + At(buf, pos + 5),
                         At(buf, pos + 6) * 256 + At(buf, pos + 7),
                         At(buf, pos + 8) * 256 + At(buf, pos + 9),
                         At(buf, pos + 10) * 256 + At(buf, pos + 11)),
                pos + 12)

\* a plausible slip: the truncation and recursion-desired bits swapped
DnsHeader_serialize_swapped(h) ==
    U16Bytes(h.id)
    \o << BitOr(Shl8(B2N(h.qr_indicator), 7),
          BitOr(Shl8(OpcodeAsU8(h.opcode), 3),
          BitOr(Shl8(B2N(h.authoritative_answer), 2),
          BitOr(Shl8(B2N(h.recursion_desired), 1),
                B2N(h.truncation))))),
          BitOr(Shl8(B2N(h.recursion_available), 7),
          BitOr(Shl8(h.reserved, 4), h.response_code)) >>
    \o U16Bytes(h.question_count)
    \o U16Bytes(h.answer_record_count)
    \o U16Bytes(h.authority_record_count)
    \o U16Bytes(h.additional_record_count)

DnsHeader_serialize(h) ==
    U16Bytes(h.id)
    \o << BitOr(Shl8(B2N(h.qr_indicator), 7),
          BitOr(Shl8(OpcodeAsU8(h.opcode), 3),
          BitOr(Shl8(B2N(h.authoritative_answer), 2),
          BitOr(Shl8(B2N(h.truncation), 1),
                B2N(h.recursion_desired))))),
          BitOr(Shl8(B2N(h.recursion_available), 7),
          BitOr(Shl8(h.reserved, 4), h.response_code)) >>
    \o U16Bytes(h.question_count)
    \o U16Bytes(h.answer_record_count)
    \o U16Bytes(h.authority_record_count)
    \o U16Bytes(h.additional_record_count)

----------------------------------------------------------------------------
(* Type and class codes                                                    *)

\* the discriminants of enum Type accepted by TryFrom<u16>
TypeCodes == (1..16) \cup (252..255)

\* the discriminants of enum Class accepted by TryFrom<u16>
ClassCodes == (1..4) \cup {255}

TypeA == 1

ClassIN == 1

Type_try_from(v, pos) == IF v \in TypeCodes THEN Ok(v, pos) ELSE Err("InvalidType", "")

Class_try_from(v, pos) == IF v \in ClassCodes THEN Ok(v, pos) ELSE Err("InvalidClass", "")

----------------------------------------------------------------------------
(* Name codec                                                              *)

\* `labels.len() > 30` ends the loop
LabelLimit == 30

\* packet[offset..].iter().position(|&b| b == 0): index relative to offset of
\* the first zero octet, or -1 for None
ZeroPosition(packet, offset) ==
    LET zeros == {i \in offset..(Len(packet) - 1) : At(packet, i) = 0} IN
    IF zeros = {} THEN -1
    ELSE (CHOOSE i \in zeros : \A j \in zeros : i <= j) - offset

\* a Name is its vector of labels; a Label is its section of octets
Name(labels) == [labels |-> labels]

\* a plausible slip: the bounds check lets the offset equal the length
CompressedLabel_loose(buf, p, pos, labels) ==
    LET r2 == TryGetU8(buf, pos) IN
    IF ~r2.ok THEN NotEnoughData
    ELSE LET offset == BitAnd(p, 63) * 256 + r2.val IN
         IF offset > Len(buf)
         THEN Err("InvalidName", "reference out of bounds")
         ELSE LET zp == ZeroPosition(buf, offset) IN
              IF zp < 0
              THEN Err("InvalidName", "null terminator missing")
              ELSE Ok(Name(Append(labels, Slice(buf, offset, offset + zp))),
                      r2.pos)

\* the arm `p if p & 0b1100_0000 == 0b1100_0000`, with the cursor after p
CompressedLabel(buf, p, pos, labels) ==
    LET r2 == TryGetU8(buf, pos) IN
    IF ~r2.ok THEN NotEnoughData
    ELSE LET offset == BitAnd(p, 63) * 256 + r2.val IN
         IF offset >= Len(buf)
         THEN Err("InvalidName", "reference out of bounds")
         ELSE LET zp == ZeroPosition(buf, offset) IN
              IF zp < 0
              THEN Err("InvalidName", "null terminator missing")
              ELSE Ok(Name(Append(labels, Slice(buf, offset, offset + zp))),
                      r2.pos)

RECURSIVE NameLoop(_, _, _)
\* one turn of the loop of Name::try_parse with the cursor at pos
NameLoop(buf, pos, labels) ==
    LET r == TryGetU8(buf, pos) IN
    IF ~r.ok THEN NotEnoughData
    ELSE IF r.val = 0 THEN Ok(Name(labels), r.pos)
    ELSE IF BitAnd(r.val, 192) = 192 THEN CompressedLabel(buf, r.val, r.pos, labels)
    ELSE IF Remaining(buf, r.pos) < r.val THEN NotEnoughData
    ELSE LET section == Slice(buf, r.pos - 1, r.pos + r.val)
             pushed == Append(labels, section)
         IN IF Len(pushed) > LabelLimit
            THEN Ok(Name(pushed), r.pos + r.val)
            ELSE NameLoop(buf, r.pos + r.val, pushed)

Name_try_parse(buf, pos) == NameLoop(buf, pos, <<>>)

\* Label::serialize writes the section as it is
Label_serialize(label) == label

RECURSIVE Labels_serialize(_)
Labels_serialize(labels) ==
    IF labels = <<>> THEN <<>>
    ELSE Label_serialize(Head(labels)) \o Labels_serialize(Tail(labels))

\* a plausible slip: the zero terminator is forgotten
Name_serialize_unterminated(name) == Labels_serialize(name.labels)

Name_serialize(name) == Labels_serialize(name.labels) \o <<0>>

----------------------------------------------------------------------------
(* Question and resource-record codecs                                     *)

DnsQuestion(name, qtype, class) == [name |-> name, qtype |-> qtype, class |-> class]

\* `Type::try_from(buf.try_get_u16()?)?`
ParseType(buf, pos) ==
    LET v == TryGetU16(buf, pos) IN
    IF ~v.ok THEN v ELSE Type_try_from(v.val, v.pos)

\* `Class::try_from(buf.try_get_u16()?)?`
ParseClass(buf, pos) ==
    LET v == TryGetU16(buf, pos) IN
    IF ~v.ok THEN v ELSE Class_try_from(v.val, v.pos)

\* DnsQuestion::try_parse once the class has been read
QuestionFromClass(name, qtype, class) ==
    IF ~class.ok THEN class
    ELSE Ok(DnsQuestion(name, qtype, class.val), class.pos)

\* DnsQuestion::try_parse once the type has been read
QuestionFromType(buf, name, qtype) ==
    IF ~qtype.ok THEN qtype
    ELSE QuestionFromClass(name, qtype.val, ParseClass(buf, qtype.pos))

\* DnsQuestion::try_parse once the name has been read
QuestionFromName(buf, name) ==
    IF ~name.ok THEN name
    ELSE QuestionFromType(buf, name.val, ParseType(buf, name.pos))

DnsQuestion_try_parse(buf, pos) == QuestionFromName(buf, Name_try_parse(buf, pos))

DnsQuestion_serialize(q) ==
    Name_serialize(q.name) \o U16Bytes(q.qtype) \o U16Bytes(q.class)

\* RData::A { address }
RDataA(address) == [address |-> address]

\* RData::serialize: the length field is the literal 4
RData_serialize(rdata) == <<0, 4>> \o U32Bytes(rdata.address)

ResourceRecord(name, atype, class, ttl, rdata) ==
    [name |-> name, atype |-> atype, class |-> class, ttl |-> ttl, rdata |-> rdata]

\* ResourceRecord::try_parse once _rdlength has been read
RecordFromRdlength(name, atype, class, ttl, address) ==
    IF ~address.ok THEN address
    ELSE Ok(ResourceRecord(name, atype, class, ttl, RDataA(address.val)), address.pos)

\* ResourceRecord::try_parse once the ttl has been read
RecordFromTtl(buf, name, atype, class, ttl, rdlength) ==
    IF ~rdlength.ok THEN rdlength
    ELSE RecordFromRdlength(name, atype, class, ttl, TryGetU32(buf, rdlength.pos))

\* ResourceRecord::try_parse once the class has been read
RecordFromClass(buf, name, atype, class, ttl) ==
    IF ~ttl.ok THEN ttl
    ELSE RecordFromTtl(buf, name, atype, class, ttl.val, TryGetU16(buf, ttl.pos))

\* ResourceRecord::try_parse once the type has been read
RecordFromType(buf, name, atype, class) ==
    IF ~class.ok THEN class
    ELSE RecordFromClass(buf, name, atype, class.val, TryGetU32(buf, class.pos))

\* ResourceRecord::try_parse once the name has been read
RecordFromName(buf, name, atype) ==
    IF ~atype.ok THEN atype
    ELSE RecordFromType(buf, name, atype.val, ParseClass(buf, atype.pos))

ResourceRecord_try_parse(buf, pos) ==
    LET name == Name_try_parse(buf, pos) IN
    IF ~name.ok THEN name
    ELSE RecordFromName(buf, name.val, ParseType(buf, name.pos))

ResourceRecord_serialize(r) ==
    Name_serialize(r.name) \o U16Bytes(r.atype) \o U16Bytes(r.class)
    \o U32Bytes(r.ttl) \o RData_serialize(r.rdata)

----------------------------------------------------------------------------
(* Message assembler                                                       *)

DnsMessage(header, questions, records) ==
    [header |-> header, questions |-> questions, records |-> records]

RECURSIVE ParseQuestions(_, _, _, _)
\* `for _ in 0..header.question_count`, left questions still to read
ParseQuestions(buf, pos, left, questions) ==
    IF left = 0 THEN Ok(questions, pos)
    ELSE LET q == DnsQuestion_try_parse(buf, pos) IN
         IF ~q.ok THEN q
         ELSE ParseQuestions(buf, q.pos, left - 1, Append(questions, q.val))

RECURSIVE ParseRecords(_, _, _, _)
\* `for _ in 0..header.answer_record_count`, left records still to read
ParseRecords(buf, pos, left, records) ==
    IF left = 0 THEN Ok(records, pos)
    ELSE LET r == ResourceRecord_try_parse(buf, pos) IN
         IF ~r.ok THEN r
         ELSE ParseRecords(buf, r.pos, left - 1, Append(records, r.val))

\* DnsMessage::try_parse once the records have been read
MessageFromRecords(header, questions, records) ==
    IF ~records.ok THEN records
    ELSE Ok(DnsMessage(header, questions, records.val), records.pos)

\* DnsMessage::try_parse once the questions have been read
MessageFromQuestions(buf, header, questions) ==
    IF ~questions.ok THEN questions
    ELSE MessageFromRecords(header, questions.val,
            ParseRecords(buf, questions.pos, header.answer_record_count, <<>>))

\* DnsMessage::try_parse once the header has been read
MessageFromHeader(buf, header) ==
    IF ~header.ok THEN header
    ELSE MessageFromQuestions(buf, header.val,
            ParseQuestions(buf, header.pos, header.val.question_count, <<>>))

DnsMessage_try_parse(buf) == MessageFromHeader(buf, DnsHeader_try_parse(buf, 0))

RECURSIVE Questions_serialize(_)
Questions_serialize(questions) ==
    IF questions = <<>> THEN <<>>
    ELSE DnsQuestion_serialize(Head(questions)) \o Questions_serialize(Tail(questions))

RECURSIVE Records_serialize(_)
Records_serialize(records) ==
    IF records = <<>> THEN <<>>
    ELSE ResourceRecord_serialize(Head(records)) \o Records_serialize(Tail(records))

DnsMessage_serialize(m) ==
    DnsHeader_serialize(m.header) \o Questions_serialize(m.questions)
    \o Records_serialize(m.records)

----------------------------------------------------------------------------
(* Inputs of the codec experiments                                         *)

\* all sequences over S of length at most n
SeqsUpTo(S, n) == UNION {[1..k -> S] : k \in 0..n}

RECURSIVE Flatten(_)
\* the concatenation of a sequence of octet sequences
Flatten(ss) == IF ss = <<>> THEN <<>> ELSE Head(ss) \o Flatten(Tail(ss))

RECURSIVE Repeat(_, _)
\* k copies of the octet sequence s
Repeat(s, k) == IF k = 0 THEN <<>> ELSE s \o Repeat(s, k - 1)

\* longest buffer of arbitrary octets handed to the name decoder
MaxRawLen == 5

\* most labels in a generated run that a pointer refers to
MaxPtrLabels == 3

\* most labels in a generated run of one-octet labels
MaxRunLabels == 32

\* the octets of the arbitrary buffers: terminator, a length, a letter, a pointer
NameOctets == {0, 1, 97, 192}

\* runs of one-octet labels around the label limit, with and without terminator
LongRuns ==
    {Repeat(<<1, 97>>, k) \o tail :
        k \in (LabelLimit - 1)..MaxRunLabels,
        tail \in {<<>>, <<0>>, <<0, 1, 97, 0>>, <<192, 0>>}}

\* an optional octet of padding, a run of labels with its terminator, and a
\* pointer to the start of the run
PointerBufs ==
    {pad \o Flatten(ls) \o <<0>> \o <<192, Len(pad)>> :
        pad \in {<<>>, <<7>>},
        ls \in SeqsUpTo({<<1, 97>>, <<2, 98, 99>>, <<1, 0>>}, MaxPtrLabels)}

\* pointers whose offset is the last position of the buffer, its length, or
\* one more, after some octets that the offset may fall on; and two pointers
\* whose offset has high bits from the control octet
BoundaryPointers ==
    {pad \o <<192, Len(pad) + 2 + d>> :
        pad \in {<<>>, <<0>>, <<7>>, <<1, 97>>, <<1, 97, 1, 97>>},
        d \in {-1, 0, 1}}
    \cup {<<193, 0>>, <<0, 255, 255>>}

NameBufs ==
    SeqsUpTo(NameOctets, MaxRawLen) \cup LongRuns \cup PointerBufs
    \cup BoundaryPointers

HeaderInputs ==
    {DnsHeader(id, qr, op, aa, tc, rd, ra, z, rcode, c[1], c[2], c[3], c[4]) :
        id \in {4660, 65535}, qr \in BOOLEAN, op \in Opcodes, aa \in BOOLEAN,
        tc \in BOOLEAN, rd \in BOOLEAN, ra \in BOOLEAN, z \in 0..15,
        rcode \in {0, 4, 15},
        c \in {<<0, 0, 0, 0>>, <<1, 2, 3, 4>>, <<258, 0, 65535, 1>>}}

\* encoded names: "a", the root, a pointer to offset 12, a pointer to offset
\* 18, and a label followed by a pointer to offset 12
NameEncodings == {<<1, 97, 0>>, <<0>>, <<192, 12>>, <<192, 18>>, <<1, 97, 192, 12>>}

\* encoded questions of class IN, of type A and of the unassigned type 0
QuestionEncodings ==
    {n \o U16Bytes(TypeA) \o U16Bytes(ClassIN) : n \in NameEncodings}
    \cup {<<1, 97, 0>> \o U16Bytes(0) \o U16Bytes(ClassIN)}

\* encoded A records with TTL 60
RecordEncodings ==
    {n \o U16Bytes(TypeA) \o U16Bytes(ClassIN) \o U32Bytes(60) \o <<0, 4, 1, 2, 3, 4>> :
        n \in {<<1, 97, 0>>, <<192, 12>>}}

\* a plain standard query header with the given counts
QueryHeader(qd, an, ns, ar) ==
    DnsHeader(4660, FALSE, "StandardQuery", FALSE, FALSE, TRUE, FALSE, 0, 0, qd, an, ns, ar)

\* the question sections of the generated datagrams: none, one or two questions
QuestionSections ==
    {<<>>} \cup {<<q>> : q \in QuestionEncodings}
    \cup {<<q1, q2>> : q1 \in QuestionEncodings, q2 \in QuestionEncodings}

\* the answer sections of the generated datagrams: none or one record
RecordSections == {<<>>} \cup {<<r>> : r \in RecordEncodings}

\* datagrams: a header whose question and answer counts match the entries
\* that follow, an authority count of 0 or 1, and 0 to 2 further octets
MsgInputs ==
    {DnsHeader_serialize(QueryHeader(Len(qs), Len(rs), ns, 0))
        \o Flatten(qs) \o Flatten(rs) \o trail :
        qs \in QuestionSections,
        rs \in RecordSections,
        ns \in {0, 1},
        trail \in {<<>>, <<0>>, <<7, 7>>}}

----------------------------------------------------------------------------
(* The codec experiments: each applies the codec to one input              *)

NoResult == Err("", "")

HeaderIdle ==
    /\ hdr = QueryHeader(0, 0, 0, 0)
    /\ hdrBytes = <<>>
    /\ hdrBack = NoResult
    /\ hpc = "idle"

NameIdle ==
    /\ nbuf = <<>>
    /\ nstart = 0
    /\ nres = NoResult
    /\ nout = <<>>
    /\ nres2 = NoResult
    /\ npc = "idle"

MessageIdle ==
    /\ mbuf = <<>>
    /\ mres = NoResult
    /\ mk = 0
    /\ mpre = NoResult
    /\ mpc = "idle"

ServerIdle ==
    /\ resolver = "None"
    /\ arrivals = 0
    /\ queue = <<>>
    /\ tasks = <<>>
    /\ port2054 = 0
    /\ mainLoop = "running"
    /\ dispatcher = "running"

InitHeader ==
    /\ hdr \in HeaderInputs
    /\ hdrBytes = <<>>
    /\ hdrBack = NoResult
    /\ hpc = "built"
    /\ NameIdle /\ MessageIdle /\ ServerIdle

\* DnsHeader::serialize into an empty Vec
SerializeHeader ==
    /\ hpc = "built"
    /\ hdrBytes' = DnsHeader_serialize(hdr)
    /\ hpc' = "serialized"
    /\ UNCHANGED <<hdr, hdrBack>>
    /\ UNCHANGED <<nbuf, nstart, nres, nout, nres2, npc, mbuf, mres, mk, mpre, mpc>>
    /\ UNCHANGED serverVars

\* DnsHeader::try_parse on a cursor over the octets written
ParseHeader ==
    /\ hpc = "serialized"
    /\ hdrBack' = DnsHeader_try_parse(hdrBytes, 0)
    /\ hpc' = "parsed"
    /\ UNCHANGED <<hdr, hdrBytes>>
    /\ UNCHANGED <<nbuf, nstart, nres, nout, nres2, npc, mbuf, mres, mk, mpre, mpc>>
    /\ UNCHANGED serverVars

NextHeader == SerializeHeader \/ ParseHeader

SpecHeader == InitHeader /\ [][NextHeader]_vars

InitName ==
    /\ nbuf \in NameBufs
    /\ nstart = 0
    /\ nres = NoResult
    /\ nout = <<>>
    /\ nres2 = NoResult
    /\ npc = "fresh"
    /\ HeaderIdle /\ MessageIdle /\ ServerIdle

\* Name::try_parse with the cursor at any position of the buffer
ParseName ==
    /\ npc = "fresh"
    /\ \E s \in 0..Len(nbuf) :
        /\ nstart' = s
        /\ nres' = Name_try_parse(nbuf, s)
    /\ npc' = "parsed"
    /\ UNCHANGED <<nbuf, nout, nres2>>
    /\ UNCHANGED <<hdr, hdrBytes, hdrBack, hpc, mbuf, mres, mk, mpre, mpc>>
    /\ UNCHANGED serverVars

\* Name::serialize of the decoded name into an empty Vec
SerializeName ==
    /\ npc = "parsed"
    /\ nres.ok
    /\ nout' = Name_serialize(nres.val)
    /\ npc' = "serialized"
    /\ UNCHANGED <<nbuf, nstart, nres, nres2>>
    /\ UNCHANGED <<hdr, hdrBytes, hdrBack, hpc, mbuf, mres, mk, mpre, mpc>>
    /\ UNCHANGED serverVars

\* Name::try_parse on a cursor over the octets written
ReparseName ==
    /\ npc = "serialized"
    /\ nres2' = Name_try_parse(nout, 0)
    /\ npc' = "reparsed"
    /\ UNCHANGED <<nbuf, nstart, nres, nout>>
    /\ UNCHANGED <<hdr, hdrBytes, hdrBack, hpc, mbuf, mres, mk, mpre, mpc>>
    /\ UNCHANGED serverVars

NextName == ParseName \/ SerializeName \/ ReparseName

SpecName == InitName /\ [][NextName]_vars

InitMessage ==
    /\ mbuf \in MsgInputs
    /\ mres = NoResult
    /\ mk = 0
    /\ mpre = NoResult
    /\ mpc = "fresh"
    /\ HeaderIdle /\ NameIdle /\ ServerIdle

\* DnsMessage::try_parse on the whole datagram
ParseMessage ==
    /\ mpc = "fresh"
    /\ mres' = DnsMessage_try_parse(mbuf)
    /\ mpc' = "parsed"
    /\ UNCHANGED <<mbuf, mk, mpre>>
    /\ UNCHANGED <<hdr, hdrBytes, hdrBack, hpc, nbuf, nstart, nres, nout, nres2, npc>>
    /\ UNCHANGED serverVars

\* DnsMessage::try_parse on the first k octets of the datagram
ParsePrefix ==
    /\ mpc = "parsed"
    /\ \E k \in 0..(Len(mbuf) - 1) :
        /\ mk' = k
        /\ mpre' = DnsMessage_try_parse(Slice(mbuf, 0, k))
    /\ mpc' = "truncated"
    /\ UNCHANGED <<mbuf, mres>>
    /\ UNCHANGED <<hdr, hdrBytes, hdrBack, hpc, nbuf, nstart, nres, nout, nres2, npc>>
    /\ UNCHANGED serverVars

NextMessage == ParseMessage \/ ParsePrefix

SpecMessage == InitMessage /\ [][NextMessage]_vars

----------------------------------------------------------------------------
(* The responder of main.rs                                                *)

\* capacity of mpsc::channel
ChannelCapacity == 1000

\* `let mut buf = [0; 512]` of the receive loop
RecvBufSize == 512

\* `buf.resize(128, 0)` before the upstream reply is received
ForwardBufSize == 128

\* datagrams the clients send during a run
MaxDatagrams == 2

\* the peer a datagram comes from: the first client sends the datagrams with
\* an even first octet, the second client the others
PeerOf(d) == IF d[1] % 2 = 0 THEN "198.51.100.1:4000" ELSE "198.51.100.2:4000"

\* twelve header octets given the two flag octets as they are on the wire
RawHeader(id, b2, b3, qd, an, ns, ar) ==
    U16Bytes(id) \o <<b2, b3>> \o U16Bytes(qd) \o U16Bytes(an)
    \o U16Bytes(ns) \o U16Bytes(ar)

\* the question "a" A IN
QuestionA == <<1, 97, 0>> \o U16Bytes(TypeA) \o U16Bytes(ClassIN)

\* a question whose name is a pointer to offset 12, NS IN
QuestionPtr == <<192, 12>> \o U16Bytes(2) \o U16Bytes(ClassIN)

\* an A record for "a" with the given TTL and address octets
RecordA(ttl, a, b, c, d) ==
    <<1, 97, 0>> \o U16Bytes(TypeA) \o U16Bytes(ClassIN) \o U32Bytes(ttl)
    \o <<0, 4, a, b, c, d>>

\* the datagrams clients send:
\*   a standard query with one question and recursion desired;
\*   two questions, opcode pattern 5, every flag and reserved bit set, rcode 3;
\*   an inverse query with one question, one answer record, and an additional
\*   count of 1 with an OPT record after the answer;
\*   a header without questions and opcode pattern 15;
\*   three octets that are no message
DatagramInputs ==
    { RawHeader(4660, 1, 0, 1, 0, 0, 0) \o QuestionA,
      RawHeader(43981, 47, 243, 2, 0, 0, 0) \o QuestionA \o QuestionPtr,
      RawHeader(8, 9, 0, 1, 1, 0, 1) \o QuestionA \o RecordA(5, 10, 0, 0, 1)
          \o <<0, 0, 41, 16, 0, 0, 0, 0, 0, 0, 0>>,
      RawHeader(9, 120, 0, 0, 0, 0, 0),
      <<1, 2, 3>> }

\* the datagrams the upstream resolver answers with:
\*   the question and one answer; no question and two answers; no message
ReplyInputs ==
    { RawHeader(4660, 129, 128, 1, 1, 0, 0) \o QuestionA \o RecordA(300, 1, 2, 3, 4),
      RawHeader(4660, 129, 128, 0, 2, 0, 0) \o RecordA(30, 5, 6, 7, 8)
          \o RecordA(31, 9, 9, 9, 9),
      <<0>> }

\* what recv_from and recv leave in a buffer of the given size
Received(d, size) == Slice(d, 0, Min(Len(d), size))

\* a plausible slip: recursion-available and the reserved field left as received
ReplyHeader_keeps_ra(header, ancount) ==
    [header EXCEPT
        !.qr_indicator = TRUE,
        !.authoritative_answer = FALSE,
        !.truncation = FALSE,
        !.response_code = IF header.opcode = "StandardQuery" THEN 0 ELSE 4,
        !.answer_record_count = ancount]

\* the header rewrite of a reply, ancount being the new answer count
ReplyHeader(header, ancount) ==
    [header EXCEPT
        !.qr_indicator = TRUE,
        !.authoritative_answer = FALSE,
        !.truncation = FALSE,
        !.recursion_available = FALSE,
        !.reserved = 0,
        !.response_code = IF header.opcode = "StandardQuery" THEN 0 ELSE 4,
        !.answer_record_count = ancount]

\* a plausible slip: the TTL left at zero
StubRecord_ttl0(question) ==
    ResourceRecord(question.name, TypeA, ClassIN, 0,
                   RDataA(8 * 16777216 + 8 * 65536 + 8 * 256 + 8))

\* the record pushed for one question in stub-answer mode
StubRecord(question) ==
    ResourceRecord(question.name, TypeA, ClassIN, 60,
                   RDataA(8 * 16777216 + 8 * 65536 + 8 * 256 + 8))

\* `for i in 0..message.header.question_count { records.push(..) }`
StubRecords(message) ==
    [i \in 1..message.header.question_count |-> StubRecord(message.questions[i])]

\* the message handle serializes in stub-answer mode
StubReply(message) ==
    DnsMessage(ReplyHeader(message.header, message.header.question_count),
               message.questions, StubRecords(message))

\* the sub-query of the i-th turn (i from 0) of the loop of handle_forward_query
ForwardMessage(message, i) ==
    DnsMessage([message.header EXCEPT !.question_count = 1],
               <<message.questions[i + 1]>>, <<>>)

\* a plausible slip: the records of a reply put before those collected
ExtendAnswers_prepend(answers, records) == records \o answers

\* `answers.extend(reply.records)`
ExtendAnswers(answers, records) == answers \o records

\* the message handle_forward_query serializes after the loop
ForwardReply(message, answers) ==
    DnsMessage(ReplyHeader(message.header, Len(answers) % 65536),
               message.questions, answers)

NoMessage == DnsMessage(QueryHeader(0, 0, 0, 0), <<>>, <<>>)

\* the state of the task spawned for one datagram:
\*   pc       where the task is: spawned, bind, connect, send, recv, reply, done
\*   bytes    the datagram, addr its peer address
\*   message  the decoded query
\*   i        the turn of the forwarding loop, answers the records collected
\*   buf      bufs[i], the octets of the sub-query
\*   awaiting a sub-query is at the resolver, sockIn what forward_sock received
\*   subq     the sub-queries sent upstream, replies the records of each reply
\*   reply    the datagrams handed to send_to, out those of them sent
\*   outcome  how the task ended, error the failed step
NewTask(item) ==
    [pc |-> "spawned", bytes |-> item.bytes, addr |-> item.addr,
     message |-> NoMessage, i |-> 0, answers |-> <<>>, buf |-> <<>>,
     awaiting |-> FALSE, sockIn |-> <<>>, subq |-> <<>>, replies |-> <<>>,
     reply |-> <<>>, out |-> <<>>, outcome |-> "", error |-> ""]

\* a datagram handed to send_to or send
Datagram(to, message) ==
    [to |-> to, message |-> message, bytes |-> DnsMessage_serialize(message)]

InitServer ==
    /\ resolver \in {"None", "Some"}
    /\ arrivals = 0
    /\ queue = <<>>
    /\ tasks = <<>>
    /\ port2054 = 0
    /\ mainLoop = "running"
    /\ dispatcher = "running"
    /\ HeaderIdle /\ NameIdle /\ MessageIdle

\* main: recv_from returns a datagram, which is sent into the channel;
\* `tx.send(..).await?` fails once the receiver is gone, and main returns
Receive ==
    /\ mainLoop = "running"
    /\ arrivals < MaxDatagrams
    /\ Len(queue) < ChannelCapacity
    /\ \E d \in DatagramInputs :
        IF dispatcher = "running"
        THEN /\ queue' = Append(queue, [bytes |-> Received(d, RecvBufSize),
                                        addr |-> PeerOf(d)])
             /\ mainLoop' = mainLoop
        ELSE /\ queue' = queue
             /\ mainLoop' = "exited"
    /\ arrivals' = arrivals + 1
    /\ UNCHANGED <<resolver, tasks, port2054, dispatcher>>
    /\ UNCHANGED codecVars

\* main: recv_from returns an error, which is logged; the loop goes on
ReceiveError ==
    /\ mainLoop = "running"
    /\ arrivals < MaxDatagrams
    /\ UNCHANGED serverVars
    /\ UNCHANGED codecVars

\* the dispatcher: rx.recv() returns an item and handle is spawned for it
Dispatch ==
    /\ dispatcher = "running"
    /\ queue # <<>>
    /\ tasks' = Append(tasks, NewTask(Head(queue)))
    /\ queue' = Tail(queue)
    /\ UNCHANGED <<resolver, arrivals, port2054, mainLoop, dispatcher>>
    /\ UNCHANGED codecVars

\* a plausible slip: the dispatcher awaits the task it spawned and ends its
\* loop when the task failed
DispatcherAfter_joins(state, task) ==
    IF task.outcome \in {"parse_error", "forward_error"} THEN "stopped" ELSE state

\* `tokio::spawn(handle(..));`: the JoinHandle is dropped and handle returns
\* (), so the dispatcher goes back to rx.recv() whatever becomes of the task
DispatcherAfter(state, task) == state

\* the task ends: an early return of handle or of handle_forward_query, with
\* forward_sock dropped
Finished(task, outcome, error) ==
    [task EXCEPT !.pc = "done", !.outcome = outcome, !.error = error,
                 !.awaiting = FALSE, !.sockIn = <<>>]

\* a plausible slip: the answers collected so far are sent when a step fails
SentOnError_partial(task) ==
    <<Datagram(task.addr, ForwardReply(task.message, task.answers))>>

\* the datagrams handle_forward_query sends to the client when a step fails
SentOnError(task) == <<>>

\* `?` on a failed step of handle_forward_query
ForwardFailed(task, error) ==
    Finished([task EXCEPT !.out = task.out \o SentOnError(task)],
             "forward_error", error)

\* handle up to its first await: the datagram is decoded; in stub-answer mode
\* the reply is built, serialized and sent; in forwarding mode
\* handle_forward_query starts its loop
Handle(t) ==
    /\ tasks[t].pc = "spawned"
    /\ LET parsed == DnsMessage_try_parse(tasks[t].bytes)
           task == [tasks[t] EXCEPT !.message = parsed.val]
       IN IF ~parsed.ok
          THEN tasks' = [tasks EXCEPT ![t] = Finished(tasks[t], "parse_error", parsed.err)]
          ELSE IF resolver = "None"
          THEN \E sent \in BOOLEAN :
                LET reply == Datagram(task.addr, StubReply(parsed.val)) IN
                tasks' = [tasks EXCEPT ![t] =
                    IF sent
                    THEN Finished([task EXCEPT !.reply = <<reply>>, !.out = <<reply>>],
                                  "replied", "")
                    ELSE Finished([task EXCEPT !.reply = <<reply>>],
                                  "send_error", "send_to")]
          ELSE tasks' = [tasks EXCEPT ![t] =
                    [task EXCEPT !.pc =
                        IF parsed.val.header.question_count = 0
                        THEN "reply" ELSE "bind"]]
    /\ UNCHANGED <<resolver, arrivals, queue, port2054>>
    /\ UNCHANGED codecVars

\* a turn of the loop up to `UdpSocket::bind("0.0.0.0:2054").await?`: the
\* sub-query is serialized into bufs[i]; the bind fails when the port is
\* bound, and may fail otherwise
FwdBind(t) ==
    /\ tasks[t].pc = "bind"
    /\ LET task == [tasks[t] EXCEPT !.buf =
                       DnsMessage_serialize(ForwardMessage(tasks[t].message, tasks[t].i))]
       IN IF port2054 # 0
          THEN /\ tasks' = [tasks EXCEPT ![t] = ForwardFailed(task, "bind: address in use")]
               /\ UNCHANGED port2054
          ELSE \E ok \in BOOLEAN :
                IF ok
                THEN /\ tasks' = [tasks EXCEPT ![t] = [task EXCEPT !.pc = "connect"]]
                     /\ port2054' = t
                ELSE /\ tasks' = [tasks EXCEPT ![t] = ForwardFailed(task, "bind")]
                     /\ UNCHANGED port2054
    /\ UNCHANGED <<resolver, arrivals, queue>>
    /\ UNCHANGED codecVars

\* `forward_sock.connect(resolver).await?`
FwdConnect(t) ==
    /\ tasks[t].pc = "connect"
    /\ \E ok \in BOOLEAN :
        IF ok
        THEN /\ tasks' = [tasks EXCEPT ![t].pc = "send"]
             /\ UNCHANGED port2054
        ELSE /\ tasks' = [tasks EXCEPT ![t] = ForwardFailed(tasks[t], "connect")]
             /\ port2054' = 0
    /\ UNCHANGED <<resolver, arrivals, queue>>
    /\ UNCHANGED codecVars

\* `forward_sock.send(buf).await?`
FwdSend(t) ==
    /\ tasks[t].pc = "send"
    /\ \E ok \in BOOLEAN :
        IF ok
        THEN /\ tasks' = [tasks EXCEPT ![t] =
                    [tasks[t] EXCEPT
                        !.pc = "recv",
                        !.awaiting = TRUE,
                        !.subq = Append(tasks[t].subq,
                                    [i |-> tasks[t].i,
                                     message |-> ForwardMessage(tasks[t].message, tasks[t].i),
                                     bytes |-> tasks[t].buf,
                                     decoded |-> Len(tasks[t].replies)])]]
             /\ UNCHANGED port2054
        ELSE /\ tasks' = [tasks EXCEPT ![t] = ForwardFailed(tasks[t], "send")]
             /\ port2054' = 0
    /\ UNCHANGED <<resolver, arrivals, queue>>
    /\ UNCHANGED codecVars

\* the upstream resolver answers the sub-query of a task with some datagram
UpstreamReply(t) ==
    /\ tasks[t].pc = "recv"
    /\ tasks[t].awaiting
    /\ \E r \in ReplyInputs :
        tasks' = [tasks EXCEPT ![t] =
                    [tasks[t] EXCEPT !.awaiting = FALSE, !.sockIn = <<r>>]]
    /\ UNCHANGED <<resolver, arrivals, queue, port2054>>
    /\ UNCHANGED codecVars

\* `forward_sock.recv(buf).await?` returns a length, the reply is decoded and
\* its records collected; forward_sock is dropped at the end of the turn
FwdRecv(t) ==
    /\ tasks[t].pc = "recv"
    /\ tasks[t].sockIn # <<>>
    /\ LET reply == DnsMessage_try_parse(Received(Head(tasks[t].sockIn), ForwardBufSize))
       IN tasks' = [tasks EXCEPT ![t] =
            IF ~reply.ok
            THEN ForwardFailed(tasks[t], "decode")
            ELSE [tasks[t] EXCEPT
                    !.answers = ExtendAnswers(tasks[t].answers, reply.val.records),
                    !.replies = Append(tasks[t].replies, reply.val.records),
                    !.sockIn = <<>>,
                    !.i = tasks[t].i + 1,
                    !.pc = IF tasks[t].i + 1 < tasks[t].message.header.question_count
                           THEN "bind" ELSE "reply"]]
    /\ port2054' = 0
    /\ UNCHANGED <<resolver, arrivals, queue>>
    /\ UNCHANGED codecVars

\* `forward_sock.recv(buf).await?` returns an error
FwdRecvError(t) ==
    /\ tasks[t].pc = "recv"
    /\ tasks' = [tasks EXCEPT ![t] = ForwardFailed(tasks[t], "recv")]
    /\ port2054' = 0
    /\ UNCHANGED <<resolver, arrivals, queue>>
    /\ UNCHANGED codecVars

\* after the loop: the reply is built, serialized and sent to the client
FwdReply(t) ==
    /\ tasks[t].pc = "reply"
    /\ \E sent \in BOOLEAN :
        LET reply == Datagram(tasks[t].addr,
                              ForwardReply(tasks[t].message, tasks[t].answers))
        IN tasks' = [tasks EXCEPT ![t] =
            IF sent
            THEN Finished([tasks[t] EXCEPT !.reply = <<reply>>,
                                           !.out = Append(tasks[t].out, reply)],
                          "replied", "")
            ELSE ForwardFailed([tasks[t] EXCEPT !.reply = <<reply>>], "send_to")]
    /\ UNCHANGED <<resolver, arrivals, queue, port2054>>
    /\ UNCHANGED codecVars

\* the task of the t-th datagram is spawned and handle has not run yet
Spawned(t) == t \in 1..Len(tasks) /\ tasks[t].pc = "spawned"

\* a step of the task spawned for the t-th datagram; the receive loop and the
\* dispatcher run on beside it
TaskStep(t) ==
    /\ \/ Handle(t)
       \/ FwdBind(t)
       \/ FwdConnect(t)
       \/ FwdSend(t)
       \/ UpstreamReply(t)
       \/ FwdRecv(t)
       \/ FwdRecvError(t)
       \/ FwdReply(t)
    /\ dispatcher' = DispatcherAfter(dispatcher, tasks'[t])
    /\ UNCHANGED mainLoop

NextServer ==
    \/ Receive
    \/ ReceiveError
    \/ Dispatch
    \/ \E t \in 1..Len(tasks) : TaskStep(t)

SpecServer == InitServer /\ [][NextServer]_vars

\* the tokio runtime polls every task that is ready: the dispatcher takes an
\* item that is in the channel, and a spawned task runs handle up to its first
\* await.  Handle(t) has no guard but Spawned(t) and ends it, so weak fairness
\* of that step, WF_vars(Spawned(t) /\ TaskStep(t)), is the recurrence of
\* ~Spawned(t); it is stated in that form
SpecServerFair ==
    /\ SpecServer
    /\ WF_vars(Dispatch)
    /\ \A t \in 1..MaxDatagrams : []<>(~Spawned(t))

----------------------------------------------------------------------------
(* Vocabulary of the codec properties                                      *)

RECURSIVE LabelRun(_, _, _)
\* the labels of a length-prefixed label sequence stored at pos: every length
\* octet in 1..63 with that many octets after it, up to a zero octet; end is
\* the position just past the zero octet.  It reads the octets on their own,
\* without the decoder.
LabelRun(buf, pos, acc) ==
    IF pos >= Len(buf) THEN [ok |-> FALSE, labels |-> <<>>, end |-> 0]
    ELSE IF At(buf, pos) = 0 THEN [ok |-> TRUE, labels |-> acc, end |-> pos + 1]
    ELSE IF At(buf, pos) > 63 \/ pos + At(buf, pos) >= Len(buf)
         THEN [ok |-> FALSE, labels |-> <<>>, end |-> 0]
    ELSE LabelRun(buf, pos + 1 + At(buf, pos),
                  Append(acc, Slice(buf, pos, pos + 1 + At(buf, pos))))

\* two octets at pos form a compression pointer
IsPointer(buf, pos) == pos + 1 < Len(buf) /\ At(buf, pos) >= 192

\* the 14-bit offset of the pointer at pos
PointerOffset(buf, pos) == (At(buf, pos) % 64) * 256 + At(buf, pos + 1)

\* no content octet of the labels is zero
NoZeroContent(labels) ==
    \A i \in 1..Len(labels) : \A j \in 2..Len(labels[i]) : labels[i][j] # 0

\* each label is its length octet followed by that many octets
LengthPrefixed(labels) ==
    \A i \in 1..Len(labels) :
        /\ Len(labels[i]) >= 2
        /\ labels[i][1] = Len(labels[i]) - 1
        /\ labels[i][1] \in 1..63

\* the name decoded at nstart is a pointer to a stored run of n >= 1 labels
PointerToRun ==
    /\ npc # "fresh"
    /\ IsPointer(nbuf, nstart)
    /\ PointerOffset(nbuf, nstart) < Len(nbuf)
    /\ LabelRun(nbuf, PointerOffset(nbuf, nstart), <<>>).ok
    /\ Len(LabelRun(nbuf, PointerOffset(nbuf, nstart), <<>>).labels) >= 1
    /\ Len(LabelRun(nbuf, PointerOffset(nbuf, nstart), <<>>).labels) <= LabelLimit
    /\ NoZeroContent(LabelRun(nbuf, PointerOffset(nbuf, nstart), <<>>).labels)

\* C1: a name encoded as a compression pointer to a stored run of labels
\* L1..Ln and a zero terminator decodes to a Name equal, label by label, to
\* the Name decoded from the uncompressed run itself.
C1_PointerDecodesAsUncompressed ==
    PointerToRun =>
        /\ nres.ok
        /\ nres.val = Name_try_parse(nbuf, PointerOffset(nbuf, nstart)).val
        /\ nres.val.labels = LabelRun(nbuf, PointerOffset(nbuf, nstart), <<>>).labels

\* C2 as stated: every header whose fields fit their declared widths, with a
\* 4-bit reserved field, is returned unchanged by try_parse after serialize.
C2_HeaderRoundTripAsStated ==
    hpc = "parsed" => (hdrBack.ok /\ hdrBack.val = hdr)

\* C2 as amended: every header whose fields fit the widths of the wire layout,
\* the reserved field being 3 bits wide (0..7), serializes to 12 octets from
\* which try_parse returns an equal header, with the cursor after the 12th.
C2_HeaderRoundTrip ==
    (hpc = "parsed" /\ hdr.reserved <= 7) =>
        /\ Len(hdrBytes) = 12
        /\ hdrBack.ok
        /\ hdrBack.val = hdr
        /\ hdrBack.pos = 12

\* a header with every reserved bit and flag set and an unrecognized opcode
\* went through the round trip
C2_Witness ==
    /\ hpc = "parsed"
    /\ hdr.reserved = 7
    /\ hdr.opcode = "Invalid"
    /\ hdr.recursion_available /\ hdr.truncation /\ ~hdr.recursion_desired
    /\ hdr.question_count = 258
    /\ hdrBack.val = hdr

\* the name decoded at nstart came from a stored length-prefixed label
\* sequence ending in a zero octet, and went through serialize and try_parse
UncompressedRoundTrip ==
    /\ npc = "reparsed"
    /\ LabelRun(nbuf, nstart, <<>>).ok

\* C3 as stated: a name of uncompressed labels serializes to its labels, each
\* a length octet and its octets, and one zero octet; try_parse on those
\* octets returns an equal Name with the cursor just past the zero octet.
C3_NameRoundTripAsStated ==
    UncompressedRoundTrip =>
        /\ LengthPrefixed(nres.val.labels)
        /\ nout = Flatten(nres.val.labels) \o <<0>>
        /\ nres2.ok
        /\ nres2.val = nres.val
        /\ nres2.pos = Len(nout)

\* C3 as amended: the same, except that the cursor is just past the zero
\* octet only for a name of at most 30 labels; for a name of 31 labels (the
\* most the decoder returns) the cursor is left on the zero octet.
C3_NameRoundTrip ==
    UncompressedRoundTrip =>
        /\ LengthPrefixed(nres.val.labels)
        /\ nout = Flatten(nres.val.labels) \o <<0>>
        /\ nres2.ok
        /\ nres2.val = nres.val
        /\ Len(nres.val.labels) <= LabelLimit + 1
        /\ Len(nres.val.labels) <= LabelLimit => nres2.pos = Len(nout)
        /\ Len(nres.val.labels) = LabelLimit + 1 => nres2.pos = Len(nout) - 1

\* a name of exactly 30 labels went through the round trip
C3_Witness ==
    /\ UncompressedRoundTrip
    /\ Len(nres.val.labels) = LabelLimit
    /\ nres2.val = nres.val
    /\ nres2.pos = Len(nout)

\* some octet of the datagram has its two top bits set
HasPointerOctet(buf) == \E i \in 1..Len(buf) : buf[i] >= 192

\* C4 as stated: every strict prefix of a datagram that decodes successfully
\* decodes to the error NotEnoughData.
C4_PrefixIsNotEnoughDataAsStated ==
    (mpc = "truncated" /\ mres.ok) => (~mpre.ok /\ mpre.err = "NotEnoughData")

\* C4 as amended: let c be the number of octets the successful decode of B
\* consumed.  A prefix shorter than c never decodes: the error is
\* NotEnoughData, or InvalidName when B holds a compression pointer.  A prefix
\* of at least c octets decodes to the same message, unless B holds a pointer
\* and the error is InvalidName.
C4_PrefixOutcome ==
    (mpc = "truncated" /\ mres.ok) =>
        /\ mk < mres.pos => ~mpre.ok
        /\ ~mpre.ok => mpre.err \in {"NotEnoughData", "InvalidName"}
        /\ (~mpre.ok /\ ~HasPointerOctet(mbuf)) => mpre.err = "NotEnoughData"
        /\ (~mpre.ok /\ mk >= mres.pos) => (mpre.err = "InvalidName" /\ HasPointerOctet(mbuf))
        /\ mpre.ok => (mpre.val = mres.val /\ mpre.pos = mres.pos /\ mk >= mres.pos)

\* a datagram of two questions and a record, all octets decoded, was cut
\* inside its second question and the decode failed for lack of data
C4_Witness ==
    /\ mpc = "truncated"
    /\ mres.ok
    /\ mres.pos = Len(mbuf)
    /\ Len(mres.val.questions) = 2
    /\ Len(mres.val.records) = 1
    /\ mk > 12 + 7
    /\ mk < mres.pos
    /\ mpre.err = "NotEnoughData"

----------------------------------------------------------------------------
(* Vocabulary of the responder properties                                  *)

Tasks == 1..Len(tasks)

\* the task decoded its datagram
Parsed(t) == tasks[t].pc # "spawned" /\ tasks[t].outcome # "parse_error"

\* a 16-bit count of a header on the wire, at octet offset off
WireCount(bytes, off) == At(bytes, off) * 256 + At(bytes, off + 1)

\* the 4 opcode bits of a header on the wire
WireOpcode(bytes) == (At(bytes, 2) \div 8) % 16

\* the address 8.8.8.8 as a u32
Quad8 == 134744072

\* C5: in stub-answer mode every successfully parsed query with questions
\* q1..qn gets a reply, addressed to the originating peer, of exactly n
\* answer records in question order, record i being (name of qi, A, IN,
\* TTL 60, 8.8.8.8), with answer count n; the path never fails to build the
\* reply (an error of send_to is only logged).
C5_StubReply ==
    \A t \in Tasks :
        (resolver = "None" /\ Parsed(t)) =>
            LET task == tasks[t]
                qs == task.message.questions
            IN /\ task.pc = "done"
               /\ task.outcome \in {"replied", "send_error"}
               /\ Len(task.reply) = 1
               /\ task.out = (IF task.outcome = "replied" THEN task.reply ELSE <<>>)
               /\ task.reply[1].to = task.addr
               /\ task.reply[1].message.questions = qs
               /\ Len(task.reply[1].message.records) = Len(qs)
               /\ \A i \in 1..Len(qs) :
                    task.reply[1].message.records[i] =
                        [name |-> qs[i].name, atype |-> 1, class |-> 1, ttl |-> 60,
                         rdata |-> [address |-> Quad8]]
               /\ task.reply[1].message.header.answer_record_count = Len(qs)
               /\ WireCount(task.reply[1].bytes, 6) = Len(qs)
               /\ WireCount(task.bytes, 4) = Len(qs)

\* a query of two questions was answered in stub-answer mode
C5_Witness ==
    \E t \in Tasks :
        /\ resolver = "None"
        /\ tasks[t].outcome = "replied"
        /\ Len(tasks[t].message.questions) = 2
        /\ Len(tasks[t].out) = 1
        /\ Len(tasks[t].out[1].message.records) = 2

\* C6: in forwarding mode the sub-queries of a query go out one at a time in
\* question order: sub-query k is sent after k-1 replies have been received
\* and decoded, it carries exactly the question qk, and the answers of the
\* final reply are the records of reply 1, reply 2, ..., reply n in order.
C6_SequentialForwarding ==
    \A t \in Tasks :
        (resolver = "Some" /\ Parsed(t)) =>
            LET task == tasks[t]
                qs == task.message.questions
            IN /\ Len(task.subq) <= Len(qs)
               /\ Len(task.subq) <= Len(task.replies) + 1
               /\ Len(task.replies) <= Len(task.subq)
               /\ \A k \in 1..Len(task.subq) :
                    /\ task.subq[k].i = k - 1
                    /\ task.subq[k].decoded = k - 1
                    /\ task.subq[k].message.questions = <<qs[k]>>
                    /\ WireCount(task.subq[k].bytes, 4) = 1
                    /\ Slice(task.subq[k].bytes, 12, Len(task.subq[k].bytes))
                         = DnsQuestion_serialize(qs[k])
               /\ task.reply # <<>> =>
                    /\ Len(task.subq) = Len(qs)
                    /\ Len(task.replies) = Len(qs)
                    /\ task.reply[1].message.records = Flatten(task.replies)

\* a query of two questions was forwarded as two sub-queries, the replies
\* held one and two records, and the reply with the three records was sent
C6_Witness ==
    \E t \in Tasks :
        /\ resolver = "Some"
        /\ tasks[t].outcome = "replied"
        /\ Len(tasks[t].subq) = 2
        /\ Len(tasks[t].replies[1]) = 1
        /\ Len(tasks[t].replies[2]) = 2
        /\ Len(tasks[t].out[1].message.records) = 3

\* C7: in forwarding mode a query whose sub-query fails at any step (bind,
\* connect, send, receive, decode) gets no datagram at all; a reply is sent
\* only after every sub-query has succeeded, and then exactly one.
C7_NoPartialReply ==
    \A t \in Tasks :
        resolver = "Some" =>
            LET task == tasks[t] IN
            /\ Len(task.out) <= 1
            /\ task.pc # "done" => task.out = <<>>
            /\ task.outcome \in {"forward_error", "parse_error"} => task.out = <<>>
            /\ task.out # <<>> =>
                /\ Len(task.replies) = Len(task.message.questions)
                /\ Len(task.subq) = Len(task.message.questions)
                /\ task.error = ""
            /\ (task.pc = "done" /\ task.error = "") => Len(task.out) = 1

\* the first sub-query of a query of two questions was answered, the reply to
\* the second could not be decoded, and the client got nothing
C7_Witness ==
    \E t \in Tasks :
        /\ resolver = "Some"
        /\ tasks[t].pc = "done"
        /\ tasks[t].error = "decode"
        /\ Len(tasks[t].subq) = 2
        /\ Len(tasks[t].replies) = 1
        /\ tasks[t].answers # <<>>
        /\ tasks[t].out = <<>>

\* C8: every reply sent to a client, in either mode, has on the wire the
\* reply indicator set, authoritative-answer, truncation and
\* recursion-available cleared, the reserved field zero, and response code 0
\* if the opcode bits of the query are 0 and 4 for every other pattern.
C8_ReplyFlags ==
    \A t \in Tasks :
        \A k \in 1..Len(tasks[t].out) :
            LET b2 == At(tasks[t].out[k].bytes, 2)
                b3 == At(tasks[t].out[k].bytes, 3)
            IN /\ b2 \div 128 = 1
               /\ (b2 \div 4) % 2 = 0
               /\ (b2 \div 2) % 2 = 0
               /\ b3 \div 128 = 0
               /\ (b3 \div 16) % 8 = 0
               /\ b3 % 16 = (IF WireOpcode(tasks[t].bytes) = 0 THEN 0 ELSE 4)
               /\ tasks[t].out[k].message.header.reserved = 0

\* a query with opcode pattern 5 and every flag set was forwarded and its
\* reply, with response code 4, was sent
C8_Witness ==
    \E t \in Tasks :
        /\ resolver = "Some"
        /\ Len(tasks[t].out) = 1
        /\ WireOpcode(tasks[t].bytes) = 5
        /\ At(tasks[t].bytes, 3) >= 128
        /\ At(tasks[t].out[1].bytes, 3) = 4

\* the counts of the header of a message handed to a socket are the numbers
\* of entries encoded after it
CountsMatchEntries(d) ==
    /\ d.message.header.question_count = Len(d.message.questions)
    /\ d.message.header.answer_record_count = Len(d.message.records)
    /\ d.message.header.authority_record_count = 0
    /\ d.message.header.additional_record_count = 0
    /\ WireCount(d.bytes, 4) = Len(d.message.questions)
    /\ WireCount(d.bytes, 6) = Len(d.message.records)
    /\ WireCount(d.bytes, 8) = 0
    /\ WireCount(d.bytes, 10) = 0

\* C9: every message the responder encodes and sends (stub reply, forwarded
\* sub-query, aggregated reply) has header counts equal to the numbers of
\* questions, answer, authority and additional records in its octets.
C9_CountsMatchEntries ==
    \A t \in Tasks :
        /\ \A k \in 1..Len(tasks[t].out) : CountsMatchEntries(tasks[t].out[k])
        /\ \A k \in 1..Len(tasks[t].subq) : CountsMatchEntries(tasks[t].subq[k])

\* C10: tasks share no state: every sub-query of every task gets its own
\* upstream endpoint, so no task fails because of another task in flight.
C10_TasksIndependent ==
    \A t \in Tasks : tasks[t].error # "bind: address in use"

----------------------------------------------------------------------------
(* The server outlives its tasks                                           *)

\* the receive loop of main and the dispatcher are both running
ServerRunning == mainLoop = "running" /\ dispatcher = "running"

\* handle has run on the n-th datagram received
Handled(n) == n \in 1..Len(tasks) /\ tasks[n].pc # "spawned"

\* the task ended on a decode failure or on a failure of its forwarding
Failed(t) == tasks[t].outcome \in {"parse_error", "forward_error"}

\* C11: a datagram that fails to decode, or whose forwarding fails, is
\* discarded inside its own task (nothing is sent for it) and never stops the
\* server: the receive loop and the dispatcher are running in every state,
\* and every datagram received, whatever came before it, is eventually
\* dispatched to a task and handled.
C11_ServerSurvives ==
    /\ [](ServerRunning /\ \A t \in Tasks : Failed(t) => tasks[t].out = <<>>)
    /\ \A n \in 1..MaxDatagrams : (arrivals >= n) ~> Handled(n)

\* a malformed datagram was discarded by its task, the datagram after it was
\* answered, and the loops are running
C11_Witness ==
    /\ ServerRunning
    /\ Len(tasks) = 2
    /\ tasks[1].outcome = "parse_error"
    /\ tasks[1].out = <<>>
    /\ tasks[2].outcome = "replied"
    /\ Len(tasks[2].out) = 1

----------------------------------------------------------------------------
(* The label limit and the compression pointer                             *)

\* C12: no Name returned by Name::try_parse has more than 30 labels: the
\* decode stops once 30 labels have been read, whatever octets follow.
C12_AtMost30Labels ==
    (npc # "fresh" /\ nres.ok) => Len(nres.val.labels) <= 30

RECURSIVE MeetsPointer(_, _, _)
\* the position of the control octet with top bits 11 that a decode started
\* at pos comes to, n labels having been read, or -1 if it comes to none
\* (terminator, end of data or label limit first)
MeetsPointer(buf, pos, n) ==
    IF pos >= Len(buf) \/ At(buf, pos) = 0 THEN -1
    ELSE IF At(buf, pos) >= 192 THEN pos
    ELSE IF pos + At(buf, pos) >= Len(buf) \/ n + 1 > LabelLimit THEN -1
    ELSE MeetsPointer(buf, pos + 1 + At(buf, pos), n + 1)

\* the positions of the zero octets of the buffer from offset on
ZerosFrom(buf, offset) == {i \in offset..(Len(buf) - 1) : At(buf, i) = 0}

\* the position in nbuf of the pointer the decode at nstart met, or -1
MetAt == MeetsPointer(nbuf, nstart, 0)

\* C13: when Name::try_parse meets a control octet with top bits 11, the
\* 14-bit offset of its low 6 bits and the next octet is checked against the
\* buffer: offset >= length gives InvalidName("reference out of bounds");
\* otherwise a target region without a zero octet gives InvalidName, and
\* else the label pushed is the octets from offset up to the first zero
\* octet, all of them inside [offset, length).  A control octet that is the
\* last octet of the buffer gives NotEnoughData.  Every outcome is a result
\* of the decoder: no octet outside the buffer is read.
C13_PointerBounds ==
    (npc # "fresh" /\ MetAt >= 0) =>
        IF ~IsPointer(nbuf, MetAt)
        THEN nres = NotEnoughData
        ELSE LET offset == PointerOffset(nbuf, MetAt)
                 zeros == ZerosFrom(nbuf, offset)
             IN IF offset >= Len(nbuf)
                THEN nres = Err("InvalidName", "reference out of bounds")
                ELSE IF zeros = {}
                THEN ~nres.ok /\ nres.err = "InvalidName"
                ELSE /\ nres.ok
                     /\ nres.pos = MetAt + 2
                     /\ \E z \in zeros :
                         /\ \A y \in zeros : z <= y
                         /\ offset <= z /\ z < Len(nbuf)
                         /\ nres.val.labels[Len(nres.val.labels)]
                                = [k \in 1..(z - offset) |-> nbuf[offset + k]]

\* a pointer met after a label whose offset is exactly the length of the
\* buffer was refused
C13_Witness ==
    /\ npc # "fresh"
    /\ MetAt > nstart
    /\ IsPointer(nbuf, MetAt)
    /\ PointerOffset(nbuf, MetAt) = Len(nbuf)
    /\ nres = Err("InvalidName", "reference out of bounds")

\* C14: for every Name returned by Name::try_parse, also one decoded through
\* a compression pointer, serialize emits the uncompressed form: labels each
\* made of a length octet 1..63 and that many octets, then a zero
\* terminator, and nothing else; no octet in a length position has its top
\* two bits set.
C14_SerializeUncompressed ==
    (npc \in {"serialized", "reparsed"}) =>
        LET run == LabelRun(nout, 0, <<>>) IN
        run.ok /\ run.end = Len(nout)

----------------------------------------------------------------------------
(* The fields a reply keeps                                                *)

\* the recursion-desired bit of the octets of a message
WireRd(bytes) == At(bytes, 2) % 2

\* the reply carries the id, the recursion-desired bit and the question list
\* of the query
KeepsIdRdQuestions(t, k) ==
    /\ WireCount(tasks[t].out[k].bytes, 0) = WireCount(tasks[t].bytes, 0)
    /\ WireRd(tasks[t].out[k].bytes) = WireRd(tasks[t].bytes)
    /\ tasks[t].out[k].message.questions = tasks[t].message.questions

\* C15: in both modes every reply sent carries on the wire the same 16-bit
\* transaction id, the same 4 opcode bits and the same recursion-desired bit
\* as the datagram received, and its question section is the question list
\* of the query in the same order.
C15_ReplyKeepsIdentity ==
    \A t \in Tasks :
        \A k \in 1..Len(tasks[t].out) :
            /\ KeepsIdRdQuestions(t, k)
            /\ WireOpcode(tasks[t].out[k].bytes) = WireOpcode(tasks[t].bytes)

====
